---- MODULE Spec2Model ----
(***************************************************************************)
(* Capacity-bound booking admission and waitlist promotion of the          *)
(* multi-tenant event booking backend.                                     *)
(*                                                                         *)
(* Two generations of the engine live in the repository and both are       *)
(* modelled, over the same store:                                          *)
(*   - the collection hooks (bookingBeforeChange, bookingAfterChange,      *)
(*     bookingAfterDelete, promoteOldestWaitlist) wired by the Bookings    *)
(*     collection, driven by a create, by the cancel-booking route and by  *)
(*     a delete;                                                           *)
(*   - the custom endpoints bookEvent and cancelBooking, registered with   *)
(*     the hook-less Bookings collection.                                  *)
(* A request handler is a process; every await on the store that another   *)
(* handler can interleave with ends a step.  payload.create/update/delete  *)
(* on one record is an atomic primitive of the storage collaborator.       *)
(* An id is a serial number, so the order of ids is the order of createdAt.*)
(***************************************************************************)
EXTENDS Integers, Sequences, FiniteSets, Bags, TLC

\* ---------------------------------------------------------------- bounds
MaxCap == 2
MaxProcs == 2
MaxRequests == 3
MaxSeed == 4
MaxGateCount == 4
MaxFaults == 1

\* retry(fn, retries = 5, delay = 150)
Retries == 5

\* ------------------------------------------------------ the fixed world
Tenants == {1, 2}
Events == {1, 2}
Users == 1..7
Procs == 1..MaxProcs

\* Users 1..3 and 6 are attendees of tenant 1, user 4 is the admin of
\* tenant 1, user 5 is an attendee and user 7 the admin of tenant 2.
UserTenant(u) == IF u \in {5, 7} THEN 2 ELSE 1
UserRole(u) == IF u \in {4, 7} THEN "admin" ELSE "attendee"
EventTenant(e) == e

NoBooking == 0
NoEvent == 0
NoUser == 0

VARIABLES
    capacity,       \* events.capacity, per event
    bookings,       \* bookings collection: row id -> [event, user, tenant, status]
    notifications,  \* notifications collection, a bag of rows
    bookingLogs,    \* booking-logs collection, in order of insertion
    procs,          \* the request handlers in flight
    response,       \* the response of the handler that finished last
    history,        \* the requests accepted so far, a bag
    overlap,        \* whether a request ever arrived while another was in flight
    actors,         \* the users that issue requests in this run
    targets,        \* the events that requests of this run name
    generation,     \* which generation of the engine the deployment runs
    gate,           \* inputs and outputs of the admission decision run on its own
    faults,         \* storage writes the environment may still make fail
    cache,          \* tenant query cache of the bookings collection, per tenant
    listing,        \* the documents the last listing request returned
    emitter,        \* createNotificationSafe as each handler runs it
    docCache        \* tenant cache entries of findById on bookings, per tenant

vars == <<capacity, bookings, notifications, bookingLogs, procs, response,
          history, overlap, actors, targets, generation, gate, faults, cache, listing, emitter, docCache>>

Idle == [pc |-> "idle", op |-> "none", user |-> NoUser, event |-> NoEvent,
         tenant |-> 0, booking |-> NoBooking, status |-> "none", sel |-> NoBooking]

NoResponse == [op |-> "none", code |-> 0]

\* no cached result; no listing answered yet
NoEntry == [present |-> FALSE, docs |-> <<>>]
NoListing == [user |-> NoUser, docs |-> <<>>, cached |-> FALSE]

\* createNotificationSafe has not run: no create attempted, nothing to write
NoEmitter == [data |-> [user |-> NoUser, booking |-> NoBooking, type |-> "none",
                        tenant |-> 0, read |-> FALSE],
              retries |-> 0, codes |-> <<>>, outcome |-> "none"]

\* ----------------------------------------------------- store primitives
BookingIds == 1..Len(bookings)

\* A deleted row keeps its serial id; no query returns it.
Exists(b) == b \in BookingIds /\ bookings[b].status # "deleted"

\* where event = e and status = 'confirmed' and tenant = t   (totalDocs)
ConfirmedInTenant(e, t) ==
    Cardinality({b \in BookingIds : /\ bookings[b].event = e
                                    /\ bookings[b].status = "confirmed"
                                    /\ bookings[b].tenant = t})

\* where event = e and status = 'confirmed'   (totalDocs)
ConfirmedOfEvent(e) ==
    Cardinality({b \in BookingIds : /\ bookings[b].event = e
                                    /\ bookings[b].status = "confirmed"})

\* where event = e and user = u, limit 1   (totalDocs > 0)
ExistingOfUser(e, u) ==
    \E b \in BookingIds : /\ Exists(b)
                          /\ bookings[b].event = e
                          /\ bookings[b].user = u

\* where event = e and status = 'waitlisted' and tenant = t
WaitlistedOf(e, t) ==
    {b \in BookingIds : /\ bookings[b].event = e
                        /\ bookings[b].status = "waitlisted"
                        /\ bookings[b].tenant = t}

\* sort: 'createdAt', limit: 1   (NoBooking when docs is empty)
OldestMutant(e, t) ==
    IF WaitlistedOf(e, t) = {} THEN NoBooking
    ELSE CHOOSE b \in WaitlistedOf(e, t) : \A c \in WaitlistedOf(e, t) : c <= b

OldestWaitlisted(e, t) ==
    IF WaitlistedOf(e, t) = {} THEN NoBooking
    ELSE CHOOSE b \in WaitlistedOf(e, t) : \A c \in WaitlistedOf(e, t) : b <= c

\* ------------------------------------------------- admission decisions
\* `x || 0` on a capacity that may be missing
OrZero(raw) == IF raw.present /\ raw.value # 0 THEN raw.value ELSE 0

Present(n) == [present |-> TRUE, value |-> n]

\* hook bookingBeforeChange: confirmedCount < capacity ? confirmed : waitlisted
DecideHook(confirmedCount, rawCapacity) ==
    IF confirmedCount < OrZero(rawCapacity) THEN "confirmed" ELSE "waitlisted"

\* endpoint bookEvent: confirmedCount >= capacity ? waitlisted : confirmed
DecideEndpointMutant(confirmedCount, rawCapacity) ==
    IF confirmedCount > OrZero(rawCapacity) THEN "waitlisted" ELSE "confirmed"

DecideEndpoint(confirmedCount, rawCapacity) ==
    IF confirmedCount >= OrZero(rawCapacity) THEN "waitlisted" ELSE "confirmed"

\* older hook bookingBeforeChange: confirmedCount < capacity ? confirmed : waitlisted
DecideOldHook(confirmedCount, rawCapacity) ==
    IF confirmedCount < OrZero(rawCapacity) THEN "confirmed" ELSE "waitlisted"

\* ------------------------------------------------------- side effects
Notification(u, b, type, t) ==
    [user |-> u, booking |-> b, type |-> type, tenant |-> t, read |-> FALSE]

LogEntry(b, e, u, action, t) ==
    [booking |-> b, event |-> e, user |-> u, action |-> action, tenant |-> t]

Notify(bag, n) == bag (+) SetToBag({n})

\* notification type and title chosen for a created booking
CreatedType(status) == IF status = "confirmed" THEN "booking_confirmed" ELSE "waitlisted"

\* audit action chosen for a created booking
CreatedAction(status) == IF status = "confirmed" THEN "auto_confirm" ELSE "auto_waitlist"

\* the handler answers with an HTTP status
Finish(p, op, code) ==
    /\ procs' = [procs EXCEPT ![p] = Idle]
    /\ response' = [op |-> op, code |-> code]

\* a new request is taken by the first free handler slot
CanStart(p, u) ==
    /\ procs[p].pc = "idle"
    /\ \A q \in Procs : q < p => procs[q].pc # "idle"
    /\ u \in actors
    /\ BagCardinality(history) < MaxRequests

\* a request: the operation, the authenticated user, the id it names
Request(op, u, arg) == [op |-> op, user |-> u, arg |-> arg]

Accept(p, req) ==
    /\ history' = history (+) SetToBag({req})
    /\ overlap' = (overlap \/ \E q \in Procs : q # p /\ procs[q].pc # "idle")

SetStatus(b, status) == [bookings EXCEPT ![b].status = status]

\* bookingAfterChange: wasConfirmed = previousDoc.status === "confirmed"
WasConfirmedMutant(previousStatus) == previousStatus # "canceled"

WasConfirmed(previousStatus) == previousStatus = "confirmed"

\* bookingAfterDelete: if (doc.status !== "confirmed") return
DeletedConfirmedMutant(docStatus) == docStatus # "canceled"

DeletedConfirmed(docStatus) == docStatus = "confirmed"

\* cancelBooking: if (booking.status === 'confirmed'), on the booking as loaded
LoadedConfirmed(loadedStatus) == loadedStatus = "confirmed"

\* ------------------------------------------------ hooks: create a booking
\* bookingBeforeChange (operation = create): tenant and user are taken from
\* the authenticated user, the status from the tenant-scoped confirmed count.
HookCreateBegin(p, u, e) ==
    /\ CanStart(p, u)
    /\ e \in targets
    /\ Accept(p, Request("create", u, e))
    /\ procs' = [procs EXCEPT ![p] =
            [Idle EXCEPT !.pc = "hk_persist", !.op = "create", !.user = u,
                         !.event = e, !.tenant = UserTenant(u),
                         !.status = DecideHook(ConfirmedInTenant(e, UserTenant(u)),
                                               Present(capacity[e]))]]
    /\ UNCHANGED <<capacity, bookings, notifications, bookingLogs, response,
                   actors, targets, generation, gate, faults, cache, listing, emitter, docCache>>

\* the insert, then bookingAfterChange (operation = create): one notification,
\* no audit entry (bookingAfterOperation is not among the collection's hooks).
HookCreatePersist(p) ==
    /\ procs[p].pc = "hk_persist"
    /\ LET r == procs[p]
           id == Len(bookings) + 1
       IN /\ bookings' = Append(bookings, [event |-> r.event, user |-> r.user,
                                           tenant |-> r.tenant, status |-> r.status])
          /\ notifications' = Notify(notifications,
                 Notification(r.user, id, CreatedType(r.status), r.tenant))
    /\ Finish(p, "create", 201)
    /\ UNCHANGED <<capacity, bookingLogs, history, overlap, actors, targets, generation, gate, faults, cache, listing, emitter, docCache>>

\* ------------------------------------- hooks: cancel through the route
\* POST cancel-booking: load, attendee-owns check, payload.update to canceled,
\* then bookingAfterChange (operation = update) on previousDoc and doc.
CancelRoute(p, u, b) ==
    /\ CanStart(p, u)
    /\ b \in BookingIds
    /\ Accept(p, Request("cancel", u, b))
    /\ IF ~Exists(b)
       THEN /\ Finish(p, "cancel", 500)
            /\ UNCHANGED <<bookings, notifications>>
       ELSE IF UserRole(u) = "attendee" /\ bookings[b].user # u
       THEN /\ Finish(p, "cancel", 403)
            /\ UNCHANGED <<bookings, notifications>>
       ELSE LET prev == bookings[b] IN
            /\ bookings' = SetStatus(b, "canceled")
            /\ IF prev.status = "canceled"
               THEN \* statusChanged is false
                    /\ Finish(p, "cancel", 200)
                    /\ UNCHANGED notifications
               ELSE IF WasConfirmed(prev.status)
               THEN \* wasConfirmed && nowCanceled
                    /\ notifications' = Notify(notifications,
                           Notification(prev.user, b, "booking_canceled", prev.tenant))
                    /\ procs' = [procs EXCEPT ![p] =
                           [Idle EXCEPT !.pc = "hk_find", !.op = "cancel",
                                        !.user = prev.user, !.event = prev.event,
                                        !.tenant = prev.tenant, !.booking = b,
                                        !.status = prev.status]]
                    /\ UNCHANGED response
               ELSE \* general status change notification
                    /\ notifications' = Notify(notifications,
                           Notification(prev.user, b, "booking_canceled", prev.tenant))
                    /\ Finish(p, "cancel", 200)
    /\ UNCHANGED <<capacity, bookingLogs, actors, targets, generation, gate, faults, cache, listing, emitter, docCache>>

\* --------------------------------------------- hooks: delete a booking
\* delete under deleteForTenant (tenant admin), then bookingAfterDelete.  The
\* notification names a row that is gone, so createNotificationSafe ends in
\* its fallback without the booking reference.
HookDelete(p, u, b) ==
    /\ CanStart(p, u)
    /\ b \in BookingIds
    /\ Accept(p, Request("delete", u, b))
    /\ IF UserRole(u) # "admin"
       THEN /\ Finish(p, "delete", 403)
            /\ UNCHANGED <<bookings, notifications>>
       ELSE IF ~Exists(b) \/ bookings[b].tenant # UserTenant(u)
       THEN /\ Finish(p, "delete", 404)
            /\ UNCHANGED <<bookings, notifications>>
       ELSE LET doc == bookings[b] IN
            /\ bookings' = SetStatus(b, "deleted")
            /\ IF ~DeletedConfirmed(doc.status)
               THEN /\ Finish(p, "delete", 200)
                    /\ UNCHANGED notifications
               ELSE /\ notifications' = Notify(notifications,
                           Notification(doc.user, NoBooking, "booking_canceled", doc.tenant))
                    /\ procs' = [procs EXCEPT ![p] =
                           [Idle EXCEPT !.pc = "hk_find", !.op = "delete",
                                        !.user = doc.user, !.event = doc.event,
                                        !.tenant = doc.tenant, !.booking = b,
                                        !.status = doc.status]]
                    /\ UNCHANGED response
    /\ UNCHANGED <<capacity, bookingLogs, actors, targets, generation, gate, faults, cache, listing, emitter, docCache>>

\* ------------------------------------------- hooks: promoteOldestWaitlist
\* the find of the oldest waitlisted booking of (event, tenant)
PromoteFind(p) ==
    /\ procs[p].pc = "hk_find"
    /\ LET oldest == OldestWaitlisted(procs[p].event, procs[p].tenant) IN
       IF oldest = NoBooking
       THEN Finish(p, procs[p].op, 200)
       ELSE /\ procs' = [procs EXCEPT ![p].pc = "hk_update", ![p].sel = oldest]
            /\ UNCHANGED response
    /\ UNCHANGED <<capacity, bookings, notifications, bookingLogs, history, overlap,
                   actors, targets, generation, gate, faults, cache, listing, emitter, docCache>>

\* db.updateOne to confirmed (no hooks), findByID, notification, audit entry;
\* a row deleted in the meantime makes findByID throw, which is caught.
PromoteUpdate(p) ==
    /\ procs[p].pc = "hk_update"
    /\ LET id == procs[p].sel IN
       IF ~Exists(id)
       THEN UNCHANGED <<bookings, notifications, bookingLogs>>
       ELSE /\ bookings' = SetStatus(id, "confirmed")
            /\ notifications' = Notify(notifications,
                   Notification(bookings[id].user, id, "waitlist_promoted", procs[p].tenant))
            /\ bookingLogs' = Append(bookingLogs,
                   LogEntry(id, procs[p].event, bookings[id].user,
                            "promote_from_waitlist", procs[p].tenant))
    /\ Finish(p, procs[p].op, 200)
    /\ UNCHANGED <<capacity, history, overlap, actors, targets, generation, gate, faults, cache, listing, emitter, docCache>>

\* ----------------------------------------------- endpoint: bookEvent
\* load the event, tenant check, duplicate check
BookEventCheck(p, u, e) ==
    /\ CanStart(p, u)
    /\ e \in targets
    /\ Accept(p, Request("book", u, e))
    /\ IF EventTenant(e) # UserTenant(u)
       THEN Finish(p, "book", 403)
       ELSE IF ExistingOfUser(e, u)
       THEN Finish(p, "book", 400)
       ELSE /\ procs' = [procs EXCEPT ![p] =
                   [Idle EXCEPT !.pc = "be_count", !.op = "book", !.user = u,
                                !.event = e, !.tenant = UserTenant(u)]]
            /\ UNCHANGED response
    /\ UNCHANGED <<capacity, bookings, notifications, bookingLogs, actors,
                   targets, generation, gate, faults, cache, listing, emitter, docCache>>

\* count the confirmed bookings of the event and decide the status
BookEventCount(p) ==
    /\ procs[p].pc = "be_count"
    /\ procs' = [procs EXCEPT
           ![p].pc = "be_create",
           ![p].status = DecideEndpoint(ConfirmedOfEvent(procs[p].event),
                                        Present(capacity[procs[p].event]))]
    /\ UNCHANGED <<capacity, bookings, notifications, bookingLogs, response,
                   history, overlap, actors, targets, generation, gate, faults, cache, listing, emitter, docCache>>

\* create the booking, its notification and its audit entry
BookEventCreate(p) ==
    /\ procs[p].pc = "be_create"
    /\ LET r == procs[p]
           id == Len(bookings) + 1
       IN /\ bookings' = Append(bookings, [event |-> r.event, user |-> r.user,
                                           tenant |-> r.tenant, status |-> r.status])
          /\ notifications' = Notify(notifications,
                 Notification(r.user, id, CreatedType(r.status), r.tenant))
          /\ bookingLogs' = Append(bookingLogs,
                 LogEntry(id, r.event, r.user, CreatedAction(r.status), r.tenant))
    /\ Finish(p, "book", 200)
    /\ UNCHANGED <<capacity, history, overlap, actors, targets, generation, gate, faults, cache, listing, emitter, docCache>>

\* --------------------------------------------- endpoint: cancelBooking
\* load the booking, tenant check, attendee-owns check
CancelBookingLoad(p, u, b) ==
    /\ CanStart(p, u)
    /\ b \in BookingIds
    /\ Accept(p, Request("cancelBooking", u, b))
    /\ IF ~Exists(b)
       THEN Finish(p, "cancelBooking", 404)
       ELSE IF bookings[b].tenant # UserTenant(u)
       THEN Finish(p, "cancelBooking", 403)
       ELSE IF UserRole(u) = "attendee" /\ bookings[b].user # u
       THEN Finish(p, "cancelBooking", 403)
       ELSE /\ procs' = [procs EXCEPT ![p] =
                   [Idle EXCEPT !.pc = "cb_update", !.op = "cancelBooking",
                                !.user = bookings[b].user, !.event = bookings[b].event,
                                !.tenant = bookings[b].tenant, !.booking = b,
                                !.status = bookings[b].status]]
            /\ UNCHANGED response
    /\ UNCHANGED <<capacity, bookings, notifications, bookingLogs, actors,
                   targets, generation, gate, faults, cache, listing, emitter, docCache>>

\* update to canceled, canceled notification, audit entry cancel_confirmed;
\* the promotion follows when the loaded booking was confirmed
CancelBookingUpdate(p) ==
    /\ procs[p].pc = "cb_update"
    /\ LET r == procs[p] IN
       IF ~Exists(r.booking)
       THEN /\ Finish(p, "cancelBooking", 500)
            /\ UNCHANGED <<bookings, notifications, bookingLogs>>
       ELSE /\ bookings' = SetStatus(r.booking, "canceled")
            /\ notifications' = Notify(notifications,
                   Notification(r.user, r.booking, "booking_canceled", r.tenant))
            /\ bookingLogs' = Append(bookingLogs,
                   LogEntry(r.booking, r.event, r.user, "cancel_confirmed", r.tenant))
            /\ IF LoadedConfirmed(r.status)
               THEN /\ procs' = [procs EXCEPT ![p].pc = "cb_find"]
                    /\ UNCHANGED response
               ELSE Finish(p, "cancelBooking", 200)
    /\ UNCHANGED <<capacity, history, overlap, actors, targets, generation, gate, faults, cache, listing, emitter, docCache>>

\* find the oldest waitlisted booking of (event, tenant)
CancelBookingFind(p) ==
    /\ procs[p].pc = "cb_find"
    /\ LET oldest == OldestWaitlisted(procs[p].event, procs[p].tenant) IN
       IF oldest = NoBooking
       THEN Finish(p, "cancelBooking", 200)
       ELSE /\ procs' = [procs EXCEPT ![p].pc = "cb_promote", ![p].sel = oldest]
            /\ UNCHANGED response
    /\ UNCHANGED <<capacity, bookings, notifications, bookingLogs, history, overlap,
                   actors, targets, generation, gate, faults, cache, listing, emitter, docCache>>

\* update the found booking to confirmed, notification, audit entry
CancelBookingPromote(p) ==
    /\ procs[p].pc = "cb_promote"
    /\ LET r == procs[p] IN
       IF ~Exists(r.sel)
       THEN /\ Finish(p, "cancelBooking", 500)
            /\ UNCHANGED <<bookings, notifications, bookingLogs>>
       ELSE /\ bookings' = SetStatus(r.sel, "confirmed")
            /\ notifications' = Notify(notifications,
                   Notification(bookings[r.sel].user, r.sel, "waitlist_promoted", r.tenant))
            /\ bookingLogs' = Append(bookingLogs,
                   LogEntry(r.sel, r.event, bookings[r.sel].user,
                            "promote_from_waitlist", r.tenant))
            /\ Finish(p, "cancelBooking", 200)
    /\ UNCHANGED <<capacity, history, overlap, actors, targets, generation, gate, faults, cache, listing, emitter, docCache>>

\* ------------------------------------- service: BookingService.cancel
\* withBookingAccess('write', BookingController.cancelBooking): the service
\* loads the booking with queryBuilder.findById(bookingId), without the user
\* option, so findById throws 'User context required' before anything is
\* read or written; withTenantIsolation answers a plain Error with 500.
ServiceCancel(p, u, b) ==
    /\ CanStart(p, u)
    /\ b \in BookingIds
    /\ Accept(p, Request("serviceCancel", u, b))
    /\ Finish(p, "serviceCancel", 500)
    /\ UNCHANGED <<capacity, bookings, notifications, bookingLogs, actors, targets,
                   generation, gate, faults, cache, listing, emitter, docCache>>

\* ------------------------------- endpoints: create through the collection
\* The bookings collection of the endpoints generation has no hooks; its
\* create access lets an attendee create a booking for themselves, with the
\* event and the status the request carries (the tenant sent is the caller's).
CollectionCreate(p, u, e, status) ==
    /\ CanStart(p, u)
    /\ e \in targets
    /\ UserRole(u) = "attendee"
    /\ Accept(p, Request("collectionCreate", u, e))
    /\ bookings' = Append(bookings, [event |-> e, user |-> u,
                                     tenant |-> UserTenant(u), status |-> status])
    /\ Finish(p, "collectionCreate", 201)
    /\ UNCHANGED <<capacity, notifications, bookingLogs, actors, targets,
                   generation, gate, faults, cache, listing, emitter, docCache>>

\* ------------------------------------------------- listing one's bookings
\* sort '-createdAt': the newest row first
RECURSIVE NewestFirst(_)
NewestFirst(ids) ==
    IF ids = {} THEN <<>>
    ELSE LET newest == CHOOSE b \in ids : \A c \in ids : c <= b
         IN <<newest>> \o NewestFirst(ids \ {newest})

\* myBookings: payload.find where user equals the caller's id
OwnRows(u) == {b \in BookingIds : Exists(b) /\ bookings[b].user = u}

\* buildQuery: createTenantQuery adds the tenant to the where of the call;
\* BookingService.findByUser passes no where, so the tenant is all of it
TenantRows(t) == {b \in BookingIds : Exists(b) /\ bookings[b].tenant = t}

\* the row as the response serialises it
Doc(b) == [id |-> b, user |-> bookings[b].user, tenant |-> bookings[b].tenant,
           status |-> bookings[b].status]
Docs(ids) == [i \in 1..Len(ids) |-> Doc(ids[i])]

\* endpoint my-bookings
MyBookings(p, u) ==
    /\ CanStart(p, u)
    /\ Accept(p, Request("myBookings", u, NoBooking))
    /\ listing' = [user |-> u, docs |-> Docs(NewestFirst(OwnRows(u))), cached |-> FALSE]
    /\ Finish(p, "myBookings", 200)
    /\ UNCHANGED <<capacity, bookings, notifications, bookingLogs, actors, targets,
                   generation, gate, faults, cache, emitter, docCache>>

\* BookingController.getMyBookings -> BookingService.findByUser ->
\* TenantQueryBuilder.find: the cached result of the tenant for this query
\* (the key holds the collection, where, sort, limit and page, not the user)
\* is returned when there is one, otherwise the query runs and is cached.
FindByUser(p, u) ==
    /\ CanStart(p, u)
    /\ Accept(p, Request("findByUser", u, NoBooking))
    /\ LET t == UserTenant(u) IN
       IF cache[t].present
       THEN /\ listing' = [user |-> u, docs |-> cache[t].docs, cached |-> TRUE]
            /\ UNCHANGED cache
       ELSE LET result == Docs(NewestFirst(TenantRows(t))) IN
            /\ listing' = [user |-> u, docs |-> result, cached |-> FALSE]
            /\ cache' = [cache EXCEPT ![t] = [present |-> TRUE, docs |-> result]]
    /\ Finish(p, "findByUser", 200)
    /\ UNCHANGED <<capacity, bookings, notifications, bookingLogs, actors, targets,
                   generation, gate, faults, emitter, docCache>>

\* the cached entry outlives its cacheTTL and is dropped
CacheExpires(t) ==
    /\ cache[t].present
    /\ cache' = [cache EXCEPT ![t] = NoEntry]
    /\ UNCHANGED <<capacity, bookings, notifications, bookingLogs, procs, response,
                   history, overlap, actors, targets, generation, gate, faults, listing, emitter, docCache>>

\* ------------------------------------------ marking a notification read
\* payload.update of the notification with data { read: true }
MarkedRead(n) ==
    (notifications (-) SetToBag({n})) (+) SetToBag({[n EXCEPT !.read = TRUE]})

\* endpoint markNotificationRead: findByID, then 403 unless the notification's
\* user is the caller, then the update
MarkNotificationRead(p, u, n) ==
    /\ CanStart(p, u)
    /\ BagIn(n, notifications)
    /\ Accept(p, Request("markNotificationRead", u, n.booking))
    /\ IF n.user # u
       THEN /\ UNCHANGED notifications
            /\ Finish(p, "markNotificationRead", 403)
       ELSE /\ notifications' = MarkedRead(n)
            /\ Finish(p, "markNotificationRead", 200)
    /\ UNCHANGED <<capacity, bookings, bookingLogs, actors, targets, generation,
                   gate, faults, cache, listing, emitter, docCache>>

\* NotificationController.markAsRead -> NotificationService.markAsRead ->
\* NotificationsQueryBuilder.markAsRead -> TenantQueryBuilder.update: findById
\* with the tenant of the caller added to the where ('Document not found or
\* access denied' is a plain Error, answered 500), then payload.update.
MarkAsRead(p, u, n) ==
    /\ CanStart(p, u)
    /\ BagIn(n, notifications)
    /\ Accept(p, Request("markAsRead", u, n.booking))
    /\ IF n.tenant # UserTenant(u)
       THEN /\ UNCHANGED notifications
            /\ Finish(p, "markAsRead", 500)
       ELSE /\ notifications' = MarkedRead(n)
            /\ Finish(p, "markAsRead", 200)
    /\ UNCHANGED <<capacity, bookings, bookingLogs, actors, targets, generation,
                   gate, faults, cache, listing, emitter, docCache>>

\* ------------------------------------ hooks: createNotificationSafe
\* retry: the create is tried again when retries are left and it failed with
\* the foreign-key error
ShouldRetryMutant(retries, code) == retries > 0

ShouldRetry(retries, code) == retries > 0 /\ code = "23503"

\* createNotificationSafe: const { booking, ...rest } = data
WithoutBookingMutant(data) == data

WithoutBooking(data) == [data EXCEPT !.booking = NoBooking]

\* the outcomes of one payload.create of a notification
CreateCodes == {"ok", "23503", "other"}

\* the insert of the booking, then bookingAfterChange (operation = create)
\* calls createNotificationSafe with the notification of the new booking
HookCreateStore(p) ==
    /\ procs[p].pc = "hk_persist"
    /\ LET r == procs[p]
           id == Len(bookings) + 1
       IN /\ bookings' = Append(bookings, [event |-> r.event, user |-> r.user,
                                           tenant |-> r.tenant, status |-> r.status])
          /\ procs' = [procs EXCEPT ![p].pc = "hk_notify", ![p].booking = id]
          /\ emitter' = [emitter EXCEPT ![p] =
                 [data |-> Notification(r.user, id, CreatedType(r.status), r.tenant),
                  retries |-> Retries, codes |-> <<>>, outcome |-> "running"]]
    /\ UNCHANGED <<capacity, notifications, bookingLogs, response, history, overlap,
                   actors, targets, generation, gate, faults, cache, listing, docCache>>

\* one call of fn inside retry: created, tried again, handed to the fallback,
\* or thrown to bookingAfterChange, whose catch logs it and returns
RetryAttempt(p, code) ==
    /\ procs[p].pc = "hk_notify"
    /\ emitter[p].outcome = "running"
    /\ LET em == emitter[p]
           tried == [em EXCEPT !.codes = Append(em.codes, code)]
       IN IF code = "ok"
          THEN /\ notifications' = Notify(notifications, em.data)
               /\ emitter' = [emitter EXCEPT ![p] = [tried EXCEPT !.outcome = "created"]]
               /\ Finish(p, "create", 201)
          ELSE IF ShouldRetry(em.retries, code)
          THEN /\ emitter' = [emitter EXCEPT ![p] = [tried EXCEPT !.retries = em.retries - 1]]
               /\ UNCHANGED <<notifications, procs, response>>
          ELSE IF code = "23503" /\ em.data.booking # NoBooking
          THEN /\ emitter' = [emitter EXCEPT ![p] = [tried EXCEPT !.outcome = "fallback"]]
               /\ UNCHANGED <<notifications, procs, response>>
          ELSE /\ emitter' = [emitter EXCEPT ![p] = [tried EXCEPT !.outcome = "thrown"]]
               /\ UNCHANGED notifications
               /\ Finish(p, "create", 201)
    /\ UNCHANGED <<capacity, bookings, bookingLogs, history, overlap, actors, targets,
                   generation, gate, faults, cache, listing, docCache>>

\* the create without the booking reference, tried once
FallbackAttempt(p, code) ==
    /\ procs[p].pc = "hk_notify"
    /\ emitter[p].outcome = "fallback"
    /\ LET em == emitter[p]
           tried == [em EXCEPT !.codes = Append(em.codes, code)]
       IN IF code = "ok"
          THEN /\ notifications' = Notify(notifications, WithoutBooking(em.data))
               /\ emitter' = [emitter EXCEPT ![p] = [tried EXCEPT !.outcome = "degraded"]]
          ELSE /\ UNCHANGED notifications
               /\ emitter' = [emitter EXCEPT ![p] = [tried EXCEPT !.outcome = "thrown"]]
    /\ Finish(p, "create", 201)
    /\ UNCHANGED <<capacity, bookings, bookingLogs, history, overlap, actors, targets,
                   generation, gate, faults, cache, listing, docCache>>

\* ------------------------------ hooks: update through the collection
\* bookingsUpdateAccess: an attendee may update the bookings whose user and
\* tenant are theirs, everyone else the bookings of their tenant
MayUpdate(u, b) ==
    IF UserRole(u) = "attendee"
    THEN bookings[b].user = u /\ bookings[b].tenant = UserTenant(u)
    ELSE bookings[b].tenant = UserTenant(u)

\* PATCH of a booking with a status: bookingBeforeChange returns the data
\* as sent (operation is not create), the row is updated, bookingAfterChange
\* sends the general status change notification when the status changed
CollectionUpdate(p, u, b, status) ==
    /\ CanStart(p, u)
    /\ b \in BookingIds
    /\ Accept(p, Request("collectionUpdate", u, b))
    /\ IF ~Exists(b) \/ ~MayUpdate(u, b)
       THEN /\ Finish(p, "collectionUpdate", 403)
            /\ UNCHANGED <<bookings, notifications>>
       ELSE /\ bookings' = SetStatus(b, status)
            /\ notifications' =
                  IF bookings[b].status = status THEN notifications
                  ELSE Notify(notifications,
                          Notification(bookings[b].user, b, CreatedType(status),
                                       bookings[b].tenant))
            /\ Finish(p, "collectionUpdate", 200)
    /\ UNCHANGED <<capacity, bookingLogs, actors, targets, generation, gate, faults,
                   cache, listing, emitter, docCache>>

\* -------------------------------- the audit log through its collection
\* createForTenant: every authenticated user that belongs to a tenant may
\* create an entry; the collection has no hooks, the entry is stored as sent
LogCreate(p, u, b, action) ==
    /\ CanStart(p, u)
    /\ b \in BookingIds
    /\ Accept(p, Request("logCreate", u, b))
    /\ bookingLogs' = Append(bookingLogs,
           LogEntry(b, bookings[b].event, u, action, UserTenant(u)))
    /\ Finish(p, "logCreate", 201)
    /\ UNCHANGED <<capacity, bookings, notifications, actors, targets, generation,
                   gate, faults, cache, listing, emitter, docCache>>

\* bookingLogsUpdateAccess, bookingLogsDeleteAccess: the admin of the tenant
\* of the entry (and the superAdmin); everyone else is refused
MayChangeLog(u, i) == UserRole(u) = "admin" /\ bookingLogs[i].tenant = UserTenant(u)

LogUpdate(p, u, i, action) ==
    /\ CanStart(p, u)
    /\ i \in 1..Len(bookingLogs)
    /\ Accept(p, Request("logUpdate", u, i))
    /\ IF MayChangeLog(u, i)
       THEN /\ bookingLogs' = [bookingLogs EXCEPT ![i].action = action]
            /\ Finish(p, "logUpdate", 200)
       ELSE /\ UNCHANGED bookingLogs
            /\ Finish(p, "logUpdate", 403)
    /\ UNCHANGED <<capacity, bookings, notifications, actors, targets, generation,
                   gate, faults, cache, listing, emitter, docCache>>

LogDelete(p, u, i) ==
    /\ CanStart(p, u)
    /\ i \in 1..Len(bookingLogs)
    /\ Accept(p, Request("logDelete", u, i))
    /\ IF MayChangeLog(u, i)
       THEN /\ bookingLogs' = SubSeq(bookingLogs, 1, i - 1)
                                 \o SubSeq(bookingLogs, i + 1, Len(bookingLogs))
            /\ Finish(p, "logDelete", 200)
       ELSE /\ UNCHANGED bookingLogs
            /\ Finish(p, "logDelete", 403)
    /\ UNCHANGED <<capacity, bookings, notifications, actors, targets, generation,
                   gate, faults, cache, listing, emitter, docCache>>

\* ------------------------------ TenantQueryBuilder on the bookings
\* CacheKeyGenerator.generate: tenant prefix, operation, parameters.  The
\* collection query key is tenant:T:query:K:hash; findById caches under the
\* operation 'findById:K:id' given to TenantCache.set, tenant:T:findById:K:id
QueryKey(t) == [tenant |-> t, kind |-> "query", collection |-> "bookings", rest |-> 0]
FindByIdKey(t, id) == [tenant |-> t, kind |-> "findById", collection |-> "bookings", rest |-> id]

\* getCollectionInvalidationPatterns: tenant:T:collection:K:* and
\* tenant:T:query:K:*
InvalidationPatterns(t) ==
    {[tenant |-> t, kind |-> "collection", collection |-> "bookings"],
     [tenant |-> t, kind |-> "query", collection |-> "bookings"]}

\* MemoryCache.matchesPattern: the key holds the pattern up to its *
Matches(key, pattern) ==
    /\ key.tenant = pattern.tenant
    /\ key.kind = pattern.kind
    /\ key.collection = pattern.collection

Cleared(t, key) == \E pattern \in InvalidationPatterns(t) : Matches(key, pattern)

\* invalidateCollectionCache: clear every key a pattern matches
InvalidatedQueries(t) ==
    [cache EXCEPT ![t] = IF Cleared(t, QueryKey(t)) THEN NoEntry ELSE cache[t]]

InvalidatedDocs(t) ==
    [docCache EXCEPT ![t] = {en \in docCache[t] : ~Cleared(t, en.key)}]

\* findById: the cached document, or the tenant-filtered find whose document
\* is cached when there is one
QbFindById(p, u, b) ==
    /\ CanStart(p, u)
    /\ b \in BookingIds
    /\ Accept(p, Request("findById", u, b))
    /\ LET t == UserTenant(u)
           hit == {en \in docCache[t] : en.key = FindByIdKey(t, b)}
       IN IF hit # {}
          THEN /\ listing' = [user |-> u, cached |-> TRUE,
                              docs |-> <<(CHOOSE en \in hit : TRUE).doc>>]
               /\ UNCHANGED docCache
          ELSE IF Exists(b) /\ bookings[b].tenant = t
          THEN /\ listing' = [user |-> u, cached |-> FALSE, docs |-> <<Doc(b)>>]
               /\ docCache' = [docCache EXCEPT ![t] =
                      docCache[t] \cup {[key |-> FindByIdKey(t, b), doc |-> Doc(b)]}]
          ELSE /\ listing' = [user |-> u, cached |-> FALSE, docs |-> <<>>]
               /\ UNCHANGED docCache
    /\ Finish(p, "findById", 200)
    /\ UNCHANGED <<capacity, bookings, notifications, bookingLogs, actors, targets,
                   generation, gate, faults, cache, emitter>>

\* create: payload.create with the user (bookingBeforeChange decides the
\* status, bookingAfterChange notifies), then invalidateCollectionCache
QbCreate(p, u, e) ==
    /\ CanStart(p, u)
    /\ e \in targets
    /\ Accept(p, Request("qbCreate", u, e))
    /\ LET t == UserTenant(u)
           status == DecideHook(ConfirmedInTenant(e, t), Present(capacity[e]))
           id == Len(bookings) + 1
       IN /\ bookings' = Append(bookings, [event |-> e, user |-> u, tenant |-> t,
                                           status |-> status])
          /\ notifications' = Notify(notifications,
                 Notification(u, id, CreatedType(status), t))
          /\ cache' = InvalidatedQueries(t)
          /\ docCache' = InvalidatedDocs(t)
    /\ Finish(p, "qbCreate", 201)
    /\ UNCHANGED <<capacity, bookingLogs, actors, targets, generation, gate, faults,
                   listing, emitter>>

\* update: findById with skipCache under the tenant filter ('Document not
\* found or access denied' otherwise), payload.update, the general status
\* change notification of bookingAfterChange, then invalidateCollectionCache
QbUpdate(p, u, b, status) ==
    /\ CanStart(p, u)
    /\ b \in BookingIds
    /\ Accept(p, Request("qbUpdate", u, b))
    /\ LET t == UserTenant(u) IN
       IF ~Exists(b) \/ bookings[b].tenant # t
       THEN /\ Finish(p, "qbUpdate", 500)
            /\ UNCHANGED <<bookings, notifications, cache, docCache>>
       ELSE /\ bookings' = SetStatus(b, status)
            /\ notifications' =
                  IF bookings[b].status = status THEN notifications
                  ELSE Notify(notifications,
                          Notification(bookings[b].user, b, CreatedType(status), t))
            /\ cache' = InvalidatedQueries(t)
            /\ docCache' = InvalidatedDocs(t)
            /\ Finish(p, "qbUpdate", 200)
    /\ UNCHANGED <<capacity, bookingLogs, actors, targets, generation, gate, faults,
                   listing, emitter>>

\* delete of a booking that is not confirmed (bookingAfterDelete returns at
\* once): findById with skipCache, payload.delete, invalidateCollectionCache
QbDelete(p, u, b) ==
    /\ CanStart(p, u)
    /\ b \in BookingIds
    /\ bookings[b].status # "confirmed"
    /\ Accept(p, Request("qbDelete", u, b))
    /\ LET t == UserTenant(u) IN
       IF ~Exists(b) \/ bookings[b].tenant # t
       THEN /\ Finish(p, "qbDelete", 500)
            /\ UNCHANGED <<bookings, cache, docCache>>
       ELSE /\ bookings' = SetStatus(b, "deleted")
            /\ cache' = InvalidatedQueries(t)
            /\ docCache' = InvalidatedDocs(t)
            /\ Finish(p, "qbDelete", 200)
    /\ UNCHANGED <<capacity, notifications, bookingLogs, actors, targets, generation,
                   gate, faults, listing, emitter>>

\* a findById entry outlives its cacheTTL and is dropped
DocCacheExpires(t, en) ==
    /\ en \in docCache[t]
    /\ docCache' = [docCache EXCEPT ![t] = docCache[t] \ {en}]
    /\ UNCHANGED <<capacity, bookings, notifications, bookingLogs, procs, response,
                   history, overlap, actors, targets, generation, gate, faults, cache,
                   listing, emitter>>

\* ------------------------------------------- storage writes that throw
\* One write of a handler throws (an error other than the foreign-key race
\* that retry waits for): what was written before it stays, what comes after
\* it in the same try block is skipped, the catch decides the answer.
Injected == faults > 0 /\ faults' = faults - 1

\* payload.create of the booking itself throws: the REST create answers 500.
\* The notification throws: bookingAfterChange catches it, the create succeeds.
HookCreatePersistFails(p) ==
    /\ procs[p].pc = "hk_persist"
    /\ Injected
    /\ LET r == procs[p] IN
       \E stage \in {"booking", "notification"} :
          IF stage = "booking"
          THEN /\ UNCHANGED bookings
               /\ Finish(p, "create", 500)
          ELSE /\ bookings' = Append(bookings, [event |-> r.event, user |-> r.user,
                                                tenant |-> r.tenant, status |-> r.status])
               /\ Finish(p, "create", 201)
    /\ UNCHANGED <<capacity, notifications, bookingLogs, history, overlap, actors,
                   targets, generation, gate, cache, listing, emitter, docCache>>

\* the route's payload.update throws (500, nothing changed), or the update is
\* stored and the notification of bookingAfterChange throws: the catch of
\* the hook swallows it, and with it the call of promoteOldestWaitlist that
\* follows the notification in the same try block.
CancelRouteFails(p, u, b) ==
    /\ CanStart(p, u)
    /\ Exists(b)
    /\ ~(UserRole(u) = "attendee" /\ bookings[b].user # u)
    /\ Injected
    /\ Accept(p, Request("cancel", u, b))
    /\ \E stage \in {"booking", "notification"} :
          IF stage = "booking"
          THEN /\ UNCHANGED bookings
               /\ Finish(p, "cancel", 500)
          ELSE /\ bookings[b].status # "canceled"
               /\ bookings' = SetStatus(b, "canceled")
               /\ Finish(p, "cancel", 200)
    /\ UNCHANGED <<capacity, notifications, bookingLogs, actors, targets, generation, gate, cache, listing, emitter, docCache>>

\* promoteOldestWaitlist: db.updateOne, the notification or the audit entry
\* throws; the catch of promoteOldestWaitlist returns null to the hook.
PromoteUpdateFails(p) ==
    /\ procs[p].pc = "hk_update"
    /\ Exists(procs[p].sel)
    /\ Injected
    /\ LET id == procs[p].sel IN
       \E stage \in {"booking", "notification", "log"} :
          /\ bookings' = IF stage = "booking" THEN bookings ELSE SetStatus(id, "confirmed")
          /\ notifications' = IF stage = "log"
                              THEN Notify(notifications,
                                       Notification(bookings[id].user, id,
                                                    "waitlist_promoted", procs[p].tenant))
                              ELSE notifications
    /\ Finish(p, procs[p].op, 200)
    /\ UNCHANGED <<capacity, bookingLogs, history, overlap, actors, targets, generation, gate, cache, listing, emitter, docCache>>

\* bookEvent: the create of the booking, of the notification or of the audit
\* entry throws; the catch of the endpoint answers 500.
BookEventCreateFails(p) ==
    /\ procs[p].pc = "be_create"
    /\ Injected
    /\ LET r == procs[p]
           id == Len(bookings) + 1
       IN \E stage \in {"booking", "notification", "log"} :
            /\ bookings' = IF stage = "booking" THEN bookings
                           ELSE Append(bookings, [event |-> r.event, user |-> r.user,
                                                  tenant |-> r.tenant, status |-> r.status])
            /\ notifications' = IF stage = "log"
                                THEN Notify(notifications,
                                         Notification(r.user, id, CreatedType(r.status), r.tenant))
                                ELSE notifications
    /\ Finish(p, "book", 500)
    /\ UNCHANGED <<capacity, bookingLogs, history, overlap, actors, targets, generation, gate, cache, listing, emitter, docCache>>

\* cancelBooking: the update, the notification or the audit entry throws; the
\* catch answers 500 and the promotion below the audit entry is not reached.
CancelBookingUpdateFails(p) ==
    /\ procs[p].pc = "cb_update"
    /\ Exists(procs[p].booking)
    /\ Injected
    /\ LET r == procs[p] IN
       \E stage \in {"booking", "notification", "log"} :
          /\ bookings' = IF stage = "booking" THEN bookings
                         ELSE SetStatus(r.booking, "canceled")
          /\ notifications' = IF stage = "log"
                              THEN Notify(notifications,
                                       Notification(r.user, r.booking, "booking_canceled", r.tenant))
                              ELSE notifications
    /\ Finish(p, "cancelBooking", 500)
    /\ UNCHANGED <<capacity, bookingLogs, history, overlap, actors, targets, generation, gate, cache, listing, emitter, docCache>>

\* cancelBooking: the update of the promoted booking, its notification or
\* its audit entry throws; the catch answers 500.
CancelBookingPromoteFails(p) ==
    /\ procs[p].pc = "cb_promote"
    /\ Exists(procs[p].sel)
    /\ Injected
    /\ LET r == procs[p] IN
       \E stage \in {"booking", "notification", "log"} :
          /\ bookings' = IF stage = "booking" THEN bookings ELSE SetStatus(r.sel, "confirmed")
          /\ notifications' = IF stage = "log"
                              THEN Notify(notifications,
                                       Notification(bookings[r.sel].user, r.sel,
                                                    "waitlist_promoted", r.tenant))
                              ELSE notifications
    /\ Finish(p, "cancelBooking", 500)
    /\ UNCHANGED <<capacity, bookingLogs, history, overlap, actors, targets, generation, gate, cache, listing, emitter, docCache>>

\* --------------------------------- admission reads that fail
\* what an awaited payload.find or findByID leaves behind when the storage
\* fails or times out: the promise rejects, no totalDocs is there to be read
FailedRead == [threw |-> TRUE, totalDocs |-> 0]

\* await: a rejected read leaves the statements after it unexecuted
ReadThrowsMutant(read) == FALSE

ReadThrows(read) == read.threw

\* bookingBeforeChange: findByID of the event or the find of the confirmed
\* bookings throws; the catch logs and throws again, the create answers 500
HookCreateReadFails(p, u, e) ==
    /\ CanStart(p, u)
    /\ e \in targets
    /\ Injected
    /\ Accept(p, Request("create", u, e))
    /\ IF ReadThrows(FailedRead)
       THEN Finish(p, "create", 500)
       ELSE /\ procs' = [procs EXCEPT ![p] =
                   [Idle EXCEPT !.pc = "hk_persist", !.op = "create", !.user = u,
                                !.event = e, !.tenant = UserTenant(u),
                                !.status = DecideHook(OrZero(Present(FailedRead.totalDocs)),
                                                      Present(capacity[e]))]]
            /\ UNCHANGED response
    /\ UNCHANGED <<capacity, bookings, notifications, bookingLogs, actors, targets,
                   generation, gate, cache, listing, emitter, docCache>>

\* bookEvent: the find of the confirmed bookings throws inside the try of the
\* handler; the catch answers 500
BookEventReadFails(p) ==
    /\ procs[p].pc = "be_count"
    /\ Injected
    /\ IF ReadThrows(FailedRead)
       THEN Finish(p, "book", 500)
       ELSE /\ procs' = [procs EXCEPT
                   ![p].pc = "be_create",
                   ![p].status = DecideEndpoint(OrZero(Present(FailedRead.totalDocs)),
                                                Present(capacity[procs[p].event]))]
            /\ UNCHANGED response
    /\ UNCHANGED <<capacity, bookings, notifications, bookingLogs, history, overlap,
                   actors, targets, generation, gate, cache, listing, emitter, docCache>>

\* ------------------------------------------------------ specification
GateIdle == [count |-> 0, capacity |-> Present(0),
             out |-> [i \in {"hook", "endpoint", "oldHook"} |-> "none"]]

\* The store after the users of SeedUsers, in that order and one after the
\* other, have each booked event 1 through the hooks (create) or through
\* bookEvent: every status is the decision taken on the rows before it.
SeedUsers == <<1, 2, 3, 4, 6>>

SeedSizes == 0..(IF MaxSeed < Len(SeedUsers) THEN MaxSeed ELSE Len(SeedUsers))

Confirmed(rows) == Cardinality({i \in 1..Len(rows) : rows[i].status = "confirmed"})

RECURSIVE SeedRows(_, _, _)
SeedRows(n, cap, pipeline) ==
    IF n = 0 THEN <<>>
    ELSE LET rows == SeedRows(n - 1, cap, pipeline)
             status == IF pipeline = "hooks"
                       THEN DecideHook(Confirmed(rows), Present(cap))
                       ELSE DecideEndpoint(Confirmed(rows), Present(cap))
         IN Append(rows, [event |-> 1, user |-> SeedUsers[n],
                          tenant |-> UserTenant(SeedUsers[n]), status |-> status])

RECURSIVE SeedNotifications(_, _)
SeedNotifications(rows, n) ==
    IF n = 0 THEN EmptyBag
    ELSE Notify(SeedNotifications(rows, n - 1),
                Notification(rows[n].user, n, CreatedType(rows[n].status), rows[n].tenant))

SeedLogs(rows) ==
    [i \in 1..Len(rows) |->
        LogEntry(i, rows[i].event, rows[i].user, CreatedAction(rows[i].status),
                 rows[i].tenant)]

Quiet ==
    /\ procs = [p \in Procs |-> Idle]
    /\ response = NoResponse
    /\ history = EmptyBag
    /\ overlap = FALSE
    /\ gate = GateIdle

\* A deployment runs one generation of the engine; its store is the one
\* left by 0..MaxSeed sequential bookings made through that generation.
Init ==
    /\ generation \in {"hooks", "endpoints"}
    /\ \E c \in 0..MaxCap : capacity = [e \in Events |-> c]
    /\ \E n \in SeedSizes :
         /\ bookings = SeedRows(n, capacity[1], generation)
         /\ notifications = SeedNotifications(bookings, n)
    /\ bookingLogs = IF generation = "hooks" THEN <<>> ELSE SeedLogs(bookings)
    /\ Quiet
    /\ actors = {1, 4}
    /\ targets = {1}
    /\ faults = 0
    /\ cache = [t \in Tenants |-> NoEntry]
    /\ listing = NoListing
    /\ emitter = [p \in Procs |-> NoEmitter]
    /\ docCache = [t \in Tenants |-> {}]

\* --------------------------------------- the admission decision on its own
GateImpls == {"hook", "endpoint", "oldHook"}

RawCapacities == {[present |-> FALSE, value |-> 0]} \cup {Present(n) : n \in 0..MaxCap}

InitGate ==
    /\ generation = "hooks"
    /\ capacity = [e \in Events |-> 0]
    /\ bookings = <<>>
    /\ notifications = EmptyBag
    /\ bookingLogs = <<>>
    /\ procs = [p \in Procs |-> Idle]
    /\ response = NoResponse
    /\ history = EmptyBag
    /\ overlap = FALSE
    /\ actors = {}
    /\ targets = {}
    /\ faults = 0
    /\ cache = [t \in Tenants |-> NoEntry]
    /\ listing = NoListing
    /\ emitter = [p \in Procs |-> NoEmitter]
    /\ docCache = [t \in Tenants |-> {}]
    /\ \E n \in 0..MaxGateCount, raw \in RawCapacities :
         gate = [count |-> n, capacity |-> raw, out |-> [i \in GateImpls |-> "none"]]

GateDecide(impl, status) ==
    /\ gate.out[impl] = "none"
    /\ gate' = [gate EXCEPT !.out[impl] = status]
    /\ UNCHANGED <<capacity, bookings, notifications, bookingLogs, procs, response,
                   history, overlap, actors, targets, generation, faults, cache, listing, emitter, docCache>>

GateHook == GateDecide("hook", DecideHook(gate.count, gate.capacity))

GateEndpoint == GateDecide("endpoint", DecideEndpoint(gate.count, gate.capacity))

GateOldHook == GateDecide("oldHook", DecideOldHook(gate.count, gate.capacity))

NextGate == GateHook \/ GateEndpoint \/ GateOldHook

SpecGate == InitGate /\ [][NextGate]_vars

NextHooks ==
    \/ \E p \in Procs, u \in Users, e \in Events : HookCreateBegin(p, u, e)
    \/ \E p \in Procs : HookCreatePersist(p)
    \/ \E p \in Procs, u \in Users, b \in BookingIds : CancelRoute(p, u, b)
    \/ \E p \in Procs, u \in Users, b \in BookingIds : HookDelete(p, u, b)
    \/ \E p \in Procs : PromoteFind(p)
    \/ \E p \in Procs : PromoteUpdate(p)

NextEndpoints ==
    \/ \E p \in Procs, u \in Users, e \in Events : BookEventCheck(p, u, e)
    \/ \E p \in Procs : BookEventCount(p)
    \/ \E p \in Procs : BookEventCreate(p)
    \/ \E p \in Procs, u \in Users, b \in BookingIds : CancelBookingLoad(p, u, b)
    \/ \E p \in Procs : CancelBookingUpdate(p)
    \/ \E p \in Procs : CancelBookingFind(p)
    \/ \E p \in Procs : CancelBookingPromote(p)

Next ==
    \/ generation = "hooks" /\ NextHooks
    \/ generation = "endpoints" /\ NextEndpoints

Spec == Init /\ [][Next]_vars

\* --------------------------------------- the engine with failing writes
\* A full event with bookings waiting, and MaxFaults writes that may throw.
InitFaults ==
    /\ generation \in {"hooks", "endpoints"}
    /\ capacity = [e \in Events |-> 1]
    /\ \E n \in {2, 3} :
         /\ bookings = SeedRows(n, capacity[1], generation)
         /\ notifications = SeedNotifications(bookings, n)
    /\ bookingLogs = IF generation = "hooks" THEN <<>> ELSE SeedLogs(bookings)
    /\ Quiet
    /\ actors = {1, 4}
    /\ targets = {1}
    /\ faults = MaxFaults
    /\ cache = [t \in Tenants |-> NoEntry]
    /\ listing = NoListing
    /\ emitter = [p \in Procs |-> NoEmitter]
    /\ docCache = [t \in Tenants |-> {}]

NextHooksFaults ==
    \/ \E p \in Procs : HookCreatePersistFails(p)
    \/ \E p \in Procs, u \in Users, b \in BookingIds : CancelRouteFails(p, u, b)
    \/ \E p \in Procs : PromoteUpdateFails(p)

NextEndpointsFaults ==
    \/ \E p \in Procs : BookEventCreateFails(p)
    \/ \E p \in Procs : CancelBookingUpdateFails(p)
    \/ \E p \in Procs : CancelBookingPromoteFails(p)

NextFaults ==
    \/ Next
    \/ generation = "hooks" /\ NextHooksFaults
    \/ generation = "endpoints" /\ NextEndpointsFaults

SpecFaults == InitFaults /\ [][NextFaults]_vars

\* ------------------------------------ the engine with two tenants acting
\* Event 1 of tenant 1 is full (booking 1 of user 1 confirmed, booking 2 of
\* user 2 waitlisted); the callers are user 2, and user 5 and admin 7 of
\* tenant 2; requests name event 1 or event 2 (of tenant 2).
InitTenants ==
    /\ generation \in {"hooks", "endpoints"}
    /\ capacity = [e \in Events |-> 1]
    /\ bookings = SeedRows(2, capacity[1], generation)
    /\ notifications = SeedNotifications(bookings, 2)
    /\ bookingLogs = IF generation = "hooks" THEN <<>> ELSE SeedLogs(bookings)
    /\ Quiet
    /\ actors = {2, 5, 7}
    /\ targets = {1, 2}
    /\ faults = 0
    /\ cache = [t \in Tenants |-> NoEntry]
    /\ listing = NoListing
    /\ emitter = [p \in Procs |-> NoEmitter]
    /\ docCache = [t \in Tenants |-> {}]

NextTenants ==
    \/ Next
    \/ /\ generation = "hooks"
       /\ \E p \in Procs, u \in Users, b \in BookingIds : ServiceCancel(p, u, b)

SpecTenants == InitTenants /\ [][NextTenants]_vars

\* ------------------------------ the engine with a caller of each tenant
\* User 1 of tenant 1 and user 5 of tenant 2 act on event 1 of tenant 1.
InitIsolation ==
    /\ generation \in {"hooks", "endpoints"}
    /\ \E c \in 1..MaxCap : capacity = [e \in Events |-> c]
    /\ \E n \in 0..2 :
         /\ bookings = SeedRows(n, capacity[1], generation)
         /\ notifications = SeedNotifications(bookings, n)
    /\ bookingLogs = IF generation = "hooks" THEN <<>> ELSE SeedLogs(bookings)
    /\ Quiet
    /\ actors = {1, 5}
    /\ targets = {1}
    /\ faults = 0
    /\ cache = [t \in Tenants |-> NoEntry]
    /\ listing = NoListing
    /\ emitter = [p \in Procs |-> NoEmitter]
    /\ docCache = [t \in Tenants |-> {}]

NextIsolation ==
    \/ Next
    \/ /\ generation = "endpoints"
       /\ \E p \in Procs, u \in Users, e \in Events, status \in {"confirmed", "waitlisted"} :
             CollectionCreate(p, u, e, status)

SpecIsolation == InitIsolation /\ [][NextIsolation]_vars

\* ---------------------------------------------- listings beside bookings
\* Three users of one tenant hold the seeded bookings; two of them list
\* their bookings while bookings are made and canceled.
InitListing ==
    /\ generation \in {"hooks", "endpoints"}
    /\ capacity = [e \in Events |-> 1]
    /\ \E n \in 0..3 :
         /\ bookings = SeedRows(n, capacity[1], generation)
         /\ notifications = SeedNotifications(bookings, n)
    /\ bookingLogs = IF generation = "hooks" THEN <<>> ELSE SeedLogs(bookings)
    /\ Quiet
    /\ actors = {1, 2}
    /\ targets = {1}
    /\ faults = 0
    /\ cache = [t \in Tenants |-> NoEntry]
    /\ listing = NoListing
    /\ emitter = [p \in Procs |-> NoEmitter]
    /\ docCache = [t \in Tenants |-> {}]

NextListing ==
    \/ Next
    \/ /\ generation = "endpoints"
       /\ \E p \in Procs, u \in Users : MyBookings(p, u)
    \/ /\ generation = "hooks"
       /\ \/ \E p \in Procs, u \in Users : FindByUser(p, u)
          \/ \E t \in Tenants : CacheExpires(t)

SpecListing == InitListing /\ [][NextListing]_vars

\* ------------------------------------------ notifications being read
\* The seeded bookings left one notification each; users of both tenants
\* mark notifications read while bookings are made and canceled.
InitNotifications ==
    /\ generation \in {"hooks", "endpoints"}
    /\ capacity = [e \in Events |-> 1]
    /\ \E n \in 1..2 :
         /\ bookings = SeedRows(n, capacity[1], generation)
         /\ notifications = SeedNotifications(bookings, n)
    /\ bookingLogs = IF generation = "hooks" THEN <<>> ELSE SeedLogs(bookings)
    /\ Quiet
    /\ actors = {1, 2, 5}
    /\ targets = {1}
    /\ faults = 0
    /\ cache = [t \in Tenants |-> NoEntry]
    /\ listing = NoListing
    /\ emitter = [p \in Procs |-> NoEmitter]
    /\ docCache = [t \in Tenants |-> {}]

NextNotifications ==
    \/ Next
    \/ /\ generation = "endpoints"
       /\ \E p \in Procs, u \in Users, n \in BagToSet(notifications) :
             MarkNotificationRead(p, u, n)
    \/ /\ generation = "hooks"
       /\ \E p \in Procs, u \in Users, n \in BagToSet(notifications) :
             MarkAsRead(p, u, n)

SpecNotifications == InitNotifications /\ [][NextNotifications]_vars

\* ------------------------------------- the notification write under races
\* Bookings are created through the hooks while every create of a
\* notification may succeed, fail with the foreign-key error or fail otherwise.
InitEmitter ==
    /\ generation = "hooks"
    /\ capacity = [e \in Events |-> 1]
    /\ bookings = SeedRows(0, capacity[1], generation)
    /\ notifications = SeedNotifications(bookings, 0)
    /\ bookingLogs = <<>>
    /\ Quiet
    /\ actors = {1}
    /\ targets = {1}
    /\ faults = 0
    /\ cache = [t \in Tenants |-> NoEntry]
    /\ listing = NoListing
    /\ emitter = [p \in Procs |-> NoEmitter]
    /\ docCache = [t \in Tenants |-> {}]

NextEmitter ==
    \/ \E p \in Procs, u \in Users, e \in Events : HookCreateBegin(p, u, e)
    \/ \E p \in Procs : HookCreateStore(p)
    \/ \E p \in Procs, code \in CreateCodes : RetryAttempt(p, code)
    \/ \E p \in Procs, code \in CreateCodes : FallbackAttempt(p, code)

SpecEmitter == InitEmitter /\ [][NextEmitter]_vars

\* ---------------------------------------- the engine with failing reads
\* Event 1 is full; a read of the admission may fail MaxFaults times.
InitReads ==
    /\ generation \in {"hooks", "endpoints"}
    /\ capacity = [e \in Events |-> 1]
    /\ \E n \in {1, 2} :
         /\ bookings = SeedRows(n, capacity[1], generation)
         /\ notifications = SeedNotifications(bookings, n)
    /\ bookingLogs = IF generation = "hooks" THEN <<>> ELSE SeedLogs(bookings)
    /\ Quiet
    /\ actors = {1, 4}
    /\ targets = {1}
    /\ faults = MaxFaults
    /\ cache = [t \in Tenants |-> NoEntry]
    /\ listing = NoListing
    /\ emitter = [p \in Procs |-> NoEmitter]
    /\ docCache = [t \in Tenants |-> {}]

NextReads ==
    \/ Next
    \/ /\ generation = "hooks"
       /\ \E p \in Procs, u \in Users, e \in Events : HookCreateReadFails(p, u, e)
    \/ /\ generation = "endpoints"
       /\ \E p \in Procs : BookEventReadFails(p)

SpecReads == InitReads /\ [][NextReads]_vars

\* --------------------------------- the engine with updates of bookings
\* Beside booking and canceling, users send updates of existing bookings
\* with a status of their choice.
InitUpdates ==
    /\ generation \in {"hooks", "endpoints"}
    /\ capacity = [e \in Events |-> 1]
    /\ \E n \in 1..2 :
         /\ bookings = SeedRows(n, capacity[1], generation)
         /\ notifications = SeedNotifications(bookings, n)
    /\ bookingLogs = IF generation = "hooks" THEN <<>> ELSE SeedLogs(bookings)
    /\ Quiet
    /\ actors = {2, 4}
    /\ targets = {1}
    /\ faults = 0
    /\ cache = [t \in Tenants |-> NoEntry]
    /\ listing = NoListing
    /\ emitter = [p \in Procs |-> NoEmitter]
    /\ docCache = [t \in Tenants |-> {}]

NextUpdates ==
    \/ Next
    \/ /\ generation = "hooks"
       /\ \E p \in Procs, u \in Users, b \in BookingIds, status \in {"confirmed", "waitlisted"} :
             CollectionUpdate(p, u, b, status)

SpecUpdates == InitUpdates /\ [][NextUpdates]_vars

\* ----------------------------- the engine with requests to the audit log
\* Beside booking and canceling, an attendee and a tenant admin send create,
\* update and delete requests to the audit log collection.
InitLogs ==
    /\ generation \in {"hooks", "endpoints"}
    /\ capacity = [e \in Events |-> 1]
    /\ \E n \in 1..2 :
         /\ bookings = SeedRows(n, capacity[1], generation)
         /\ notifications = SeedNotifications(bookings, n)
    /\ bookingLogs = IF generation = "hooks" THEN <<>> ELSE SeedLogs(bookings)
    /\ Quiet
    /\ actors = {1, 4}
    /\ targets = {1}
    /\ faults = 0
    /\ cache = [t \in Tenants |-> NoEntry]
    /\ listing = NoListing
    /\ emitter = [p \in Procs |-> NoEmitter]
    /\ docCache = [t \in Tenants |-> {}]

NextLogs ==
    \/ Next
    \/ \E p \in Procs, u \in Users, b \in BookingIds : LogCreate(p, u, b, "auto_confirm")
    \/ \E p \in Procs, u \in Users, i \in 1..Len(bookingLogs) :
          LogUpdate(p, u, i, "create_request")
    \/ \E p \in Procs, u \in Users, i \in 1..Len(bookingLogs) : LogDelete(p, u, i)

SpecLogs == InitLogs /\ [][NextLogs]_vars

\* --------------------------------- the bookings through TenantQueryBuilder
\* Users of tenant 1 read and change its bookings through the query builder
\* alone, so every change of a booking is followed by its invalidation.
InitCache ==
    /\ generation = "hooks"
    /\ capacity = [e \in Events |-> 1]
    /\ \E n \in 1..2 :
         /\ bookings = SeedRows(n, capacity[1], generation)
         /\ notifications = SeedNotifications(bookings, n)
    /\ bookingLogs = <<>>
    /\ Quiet
    /\ actors = {1, 2}
    /\ targets = {1}
    /\ faults = 0
    /\ cache = [t \in Tenants |-> NoEntry]
    /\ listing = NoListing
    /\ emitter = [p \in Procs |-> NoEmitter]
    /\ docCache = [t \in Tenants |-> {}]

NextCache ==
    \/ \E p \in Procs, u \in Users : FindByUser(p, u)
    \/ \E p \in Procs, u \in Users, b \in BookingIds : QbFindById(p, u, b)
    \/ \E p \in Procs, u \in Users, e \in Events : QbCreate(p, u, e)
    \/ \E p \in Procs, u \in Users, b \in BookingIds, status \in {"confirmed", "waitlisted"} :
          QbUpdate(p, u, b, status)
    \/ \E p \in Procs, u \in Users, b \in BookingIds : QbDelete(p, u, b)
    \/ \E t \in Tenants : CacheExpires(t)
    \/ \E t \in Tenants : \E en \in docCache[t] : DocCacheExpires(t, en)

SpecCache == InitCache /\ [][NextCache]_vars

\* ------------------------------------------------------------ claims
Quiescent == \A p \in Procs : procs[p].pc = "idle"

ConfirmedCount(e) ==
    Cardinality({b \in BookingIds : bookings[b].event = e /\ bookings[b].status = "confirmed"})

LogsOf(b, actions) ==
    Cardinality({i \in 1..Len(bookingLogs) : /\ bookingLogs[i].booking = b
                                             /\ bookingLogs[i].action \in actions})

PromoteLogs == {i \in 1..Len(bookingLogs) : bookingLogs[i].action = "promote_from_waitlist"}

RECURSIVE Copies(_)
Copies(rows) ==
    IF rows = {} THEN 0
    ELSE LET n == CHOOSE x \in rows : TRUE
         IN CopiesIn(n, notifications) + Copies(rows \ {n})

NotificationsOf(b, type) ==
    Copies({n \in BagToSet(notifications) : n.booking = b /\ n.type = type})

SubmitsOnly == \A r \in BagToSet(history) : r.op \in {"create", "book"}

\* C1: while the only requests are concurrent SubmitBooking calls, the number
\* of confirmed bookings of an event never exceeds the event's capacity.
CapacityUnderConcurrentSubmits ==
    SubmitsOnly => \A e \in Events : ConfirmedCount(e) <= capacity[e]

\* C2: two concurrent cancellations of the two confirmed bookings of an event
\* of capacity 2 with exactly two waitlisted bookings end with both waitlisted
\* bookings confirmed, each with exactly one promotion audit entry.
TwoConcurrentCancels ==
    /\ capacity[1] = 2
    /\ Len(bookings) = 4
    /\ overlap
    /\ Quiescent
    /\ \E op \in {"cancel", "cancelBooking"} :
          history = SetToBag({Request(op, 1, 1), Request(op, 4, 2)})

NoDoublePromotion ==
    TwoConcurrentCancels =>
        /\ bookings[3].status = "confirmed"
        /\ bookings[4].status = "confirmed"
        /\ LogsOf(3, {"promote_from_waitlist"}) = 1
        /\ LogsOf(4, {"promote_from_waitlist"}) = 1
        /\ Cardinality(PromoteLogs) = 2

\* C3: a step that promotes booking b from waitlisted to confirmed leaves no
\* earlier-created booking of the same event and tenant waitlisted.
FifoPromotion ==
    [][\A b \in BookingIds :
          (bookings[b].status = "waitlisted" /\ bookings'[b].status = "confirmed")
          => \A a \in BookingIds :
                (a < b /\ bookings[a].event = bookings[b].event
                       /\ bookings[a].tenant = bookings[b].tenant)
                => bookings[a].status # "waitlisted"]_vars

\* a promotion has been made while a later booking of the event was waiting,
\* in a run with concurrent requests
FifoPromotionWitness ==
    /\ overlap
    /\ \E i \in PromoteLogs : \E c \in BookingIds :
          /\ c > bookingLogs[i].booking
          /\ bookings[c].event = bookingLogs[i].event
          /\ bookings[c].status = "waitlisted"
          /\ bookings[bookingLogs[i].booking].status = "confirmed"

\* C4: in every reachable state the number of confirmed bookings of an event
\* is at most the event's capacity.
CapacitySafety == \A e \in Events : ConfirmedCount(e) <= capacity[e]

\* C5: there is at most one non-canceled booking per (event, requester).
SingleBookingPerRequester ==
    \A e \in Events, u \in Users :
        Cardinality({b \in BookingIds : /\ bookings[b].event = e
                                        /\ bookings[b].user = u
                                        /\ bookings[b].status \in {"confirmed", "waitlisted"}}) <= 1

\* C6: after CancelBooking was called twice, one call after the other, on the
\* same booking, there is exactly one cancellation audit entry and exactly one
\* cancellation notification for it.
CanceledTwice(b) ==
    /\ ~overlap
    /\ Quiescent
    /\ response.code = 200
    /\ bookings[b].status = "canceled"
    /\ \E op \in {"cancel", "cancelBooking"}, u \in Users :
          /\ history = SetToBag({Request(op, u, b)}) (+) SetToBag({Request(op, u, b)})

IdempotentCancellation ==
    \A b \in BookingIds :
        CanceledTwice(b) =>
            /\ LogsOf(b, {"cancel_confirmed", "cancel_unconfirmed"}) = 1
            /\ NotificationsOf(b, "booking_canceled") = 1

\* C7: capacity 2, attendees A, B, C booked one after the other, then A
\* cancels: A and B were confirmed and C waitlisted, C is confirmed after the
\* cancellation, and the audit log is AutoConfirm(A), AutoConfirm(B),
\* AutoWaitlist(C), CancelConfirmed(A), PromoteFromWaitlist(C), in that order.
ScenarioBooked ==
    /\ capacity[1] = 2
    /\ Len(bookings) = 3
    /\ \A b \in 1..3 : bookings[b].user = b /\ bookings[b].event = 1
    /\ Quiescent

ScenarioAudit ==
    /\ (ScenarioBooked /\ history = EmptyBag)
          => /\ bookings[1].status = "confirmed"
             /\ bookings[2].status = "confirmed"
             /\ bookings[3].status = "waitlisted"
    /\ (ScenarioBooked /\ \E op \in {"cancel", "cancelBooking"} :
                              history = SetToBag({Request(op, 1, 1)}))
          => /\ bookings[1].status = "canceled"
             /\ bookings[3].status = "confirmed"
             /\ [i \in 1..Len(bookingLogs) |->
                    <<bookingLogs[i].action, bookingLogs[i].booking>>]
                = << <<"auto_confirm", 1>>, <<"auto_confirm", 2>>,
                     <<"auto_waitlist", 3>>, <<"cancel_confirmed", 1>>,
                     <<"promote_from_waitlist", 3>> >>

\* C8: every implementation of the admission decision answers confirmed
\* exactly when the capacity is present and confirmedCount is below it, and
\* waitlisted otherwise (so always waitlisted for capacity 0 or missing).
GateContract ==
    \A i \in GateImpls :
        gate.out[i] # "none" =>
            /\ (gate.out[i] = "confirmed")
                  <=> (gate.capacity.present /\ gate.count < gate.capacity.value)
            /\ (gate.out[i] = "waitlisted")
                  <=> (~gate.capacity.present \/ gate.count >= gate.capacity.value)

\* all three implementations have decided on a full event
GateContractWitness ==
    /\ \A i \in GateImpls : gate.out[i] = "waitlisted"
    /\ gate.capacity.present
    /\ gate.capacity.value > 0
    /\ gate.count = gate.capacity.value

PromoterPcs == {"hk_find", "hk_update", "cb_find", "cb_promote"}

\* the step in which process p takes a cancellation of booking b to its
\* decision: the whole route call in the hooks generation, the update step of
\* cancelBooking in the endpoints generation
CancelDecides(p, b) ==
    \/ /\ procs[p].pc = "idle"
       /\ \A q \in Procs : q < p => procs[q].pc # "idle"
       /\ \E u \in Users : history' = history (+) SetToBag({Request("cancel", u, b)})
    \/ /\ procs[p].pc = "cb_update"
       /\ procs[p].booking = b
       /\ procs'[p] # procs[p]

\* the status of the booking before the cancellation, as the handler has it:
\* previousDoc.status in bookingAfterChange, booking.status in cancelBooking
PriorStatus(p, b) == IF procs[p].pc = "cb_update" THEN procs[p].status ELSE bookings[b].status

DeleteDecides(p, b) ==
    /\ procs[p].pc = "idle"
    /\ \A q \in Procs : q < p => procs[q].pc # "idle"
    /\ \E u \in Users : history' = history (+) SetToBag({Request("delete", u, b)})

Answers(p, ops) ==
    /\ procs'[p].pc = "idle"
    /\ \/ procs[p].pc # "idle" /\ procs[p].op \in ops
       \/ /\ procs[p].pc = "idle"
          /\ \A q \in Procs : q < p => procs[q].pc # "idle"
          /\ \E r \in BagToSet(history') : /\ r.op \in ops
                                           /\ history' = history (+) SetToBag({r})

\* the answer is an error
ErrorAnswer == response'.code \notin {200, 201}

\* C11: a SubmitBooking that answers its caller with an error has created no
\* booking: the step that gives the error answer leaves the bookings as they
\* were when the call had written nothing yet.
FailedAdmissionCreatesNothing ==
    [][\A p \in Procs :
          (Answers(p, {"create", "book"}) /\ ErrorAnswer) => bookings' = bookings]_vars

\* the run so far is one call of a cancellation, which has been answered
OnlyACancellation ==
    /\ Quiescent
    /\ BagCardinality(history) = 1
    /\ \A r \in BagToSet(history) : r.op \in {"cancel", "cancelBooking"}

\* C12: a CancelBooking that answers its caller with an error has changed no
\* booking: after a single cancellation that was answered with an error,
\* every booking has the status it had before the call.
FailedCancellationChangesNothing ==
    (OnlyACancellation /\ response.code \notin {200, 201})
        => bookings = SeedRows(Len(bookings), capacity[1], generation)

\* C13: once the change of a confirmed booking to canceled is stored, the
\* promotion for its event is attempted whether or not the cancellation's
\* notification or audit entry could be written: the step that stores the
\* change leaves its handler at the find of the oldest waitlisted booking.
CommittedCancellationPromotes ==
    [][\A b \in BookingIds :
          (bookings[b].status = "confirmed" /\ bookings'[b].status = "canceled")
          => \E p \in Procs : /\ procs'[p].pc \in {"hk_find", "cb_find"}
                              /\ procs'[p].booking = b
                              /\ procs'[p].event = bookings[b].event]_vars

CancelOps == {"cancel", "cancelBooking", "serviceCancel"}

\* user u is the requester of booking b, or admin of the booking's tenant
MayCancel(u, b) ==
    \/ bookings[b].user = u
    \/ UserRole(u) = "admin" /\ UserTenant(u) = bookings[b].tenant

\* the step in which process p takes up the cancellation of b by user u
CancelArrives(p, u, b) ==
    /\ procs[p].pc = "idle"
    /\ \A q \in Procs : q < p => procs[q].pc # "idle"
    /\ \E op \in CancelOps : history' = history (+) SetToBag({Request(op, u, b)})

\* C14: a cancellation by a user who is neither the requester of the booking
\* nor an admin of the booking's tenant is answered 403 Forbidden, changes no
\* booking and goes no further, on every cancellation path.
UnauthorizedCancelForbidden ==
    [][\A p \in Procs, u \in Users, b \in BookingIds :
          (CancelArrives(p, u, b) /\ Exists(b) /\ ~MayCancel(u, b))
          => /\ response'.code = 403
             /\ procs'[p].pc = "idle"
             /\ bookings' = bookings]_vars

\* C15: a cancellation of a booking of another tenant changes no booking and
\* is answered exactly as a cancellation of a booking that does not exist,
\* with 404 NotFound.
CrossTenantCancelNotFound ==
    [][\A p \in Procs, u \in Users, b \in BookingIds :
          (CancelArrives(p, u, b)
              /\ (~Exists(b) \/ bookings[b].tenant # UserTenant(u)))
          => /\ response'.code = 404
             /\ procs'[p].pc = "idle"
             /\ bookings' = bookings]_vars

\* C16: every booking carries the tenant of its event and of its requester.
BookingTenantMatches ==
    \A b \in BookingIds :
        Exists(b) => /\ bookings[b].tenant = EventTenant(bookings[b].event)
                     /\ bookings[b].tenant = UserTenant(bookings[b].user)

\* the step touches no booking of tenant t: the bookings of t are the same
\* rows under the same ids before and after it
OnlyOtherTenantsChange(t) ==
    /\ bookings' # bookings
    /\ \A b \in 1..Len(bookings) :
          (bookings[b].tenant = t \/ bookings'[b].tenant = t) => bookings'[b] = bookings[b]
    /\ \A b \in (Len(bookings) + 1)..Len(bookings') : bookings'[b].tenant # t

\* what a submission of user u of tenant t for event e is decided on, in the
\* generation that runs: the admission status and the duplicate check
Admission(u, e) ==
    IF generation = "hooks"
    THEN <<DecideHook(ConfirmedInTenant(e, UserTenant(u)), Present(capacity[e])), FALSE>>
    ELSE <<DecideEndpoint(ConfirmedOfEvent(e), Present(capacity[e])), ExistingOfUser(e, u)>>

\* C17: what a caller of tenant t gets depends on the records of tenant t
\* only: a step that changes nothing but bookings of other tenants changes
\* neither the admission status, nor the outcome of the duplicate check, nor
\* the booking a promotion would pick, for any user and event of tenant t.
TenantIsolation ==
    [][\A t \in Tenants :
          OnlyOtherTenantsChange(t) =>
              \A u \in Users, e \in Events :
                  (UserTenant(u) = t /\ EventTenant(e) = t) =>
                      /\ Admission(u, e)' = Admission(u, e)
                      /\ OldestWaitlisted(e, t)' = OldestWaitlisted(e, t)]_vars

\* C18: every booking a listing returns to its caller is a booking of that
\* caller, of the caller's tenant, whether the result was computed or served
\* from the tenant query cache.
ListsOnlyOwnBookings ==
    \A i \in 1..Len(listing.docs) :
        /\ listing.docs[i].user = listing.user
        /\ listing.docs[i].tenant = UserTenant(listing.user)

\* a booking or create request of user u for event e arrives at handler p
SubmitArrives(p, u, e) ==
    /\ procs[p].pc = "idle"
    /\ \A q \in Procs : q < p => procs[q].pc # "idle"
    /\ \E op \in {"create", "book"} : history' = history (+) SetToBag({Request(op, u, e)})

NonCanceledOfUser(e, u) ==
    \E b \in BookingIds : /\ Exists(b)
                          /\ bookings[b].event = e
                          /\ bookings[b].user = u
                          /\ bookings[b].status # "canceled"

\* C19: a booking request is answered with the duplicate-booking rejection
\* only when the requester holds a non-canceled booking of the event; a
\* requester whose bookings of the event are all canceled is not rejected.
ConflictOnlyForActiveBooking ==
    [][\A p \in Procs, u \in Users, e \in Events :
          (SubmitArrives(p, u, e) /\ ~NonCanceledOfUser(e, u))
              => ~(procs'[p].pc = "idle" /\ response'.code = 400)]_vars

\* a mark-as-read request of user u arrives at handler p
MarkArrives(p, u) ==
    /\ procs[p].pc = "idle"
    /\ \A q \in Procs : q < p => procs[q].pc # "idle"
    /\ \E op \in {"markNotificationRead", "markAsRead"}, b \in BookingIds :
          history' = history (+) SetToBag({Request(op, u, b)})

\* the notifications of a step that only adds rows: nothing existing is
\* changed or removed, and every added row is unread
OnlyAddsUnread ==
    /\ \A n \in BagToSet(notifications) : CopiesIn(n, notifications') >= CopiesIn(n, notifications)
    /\ \A n \in BagToSet(notifications') :
          CopiesIn(n, notifications') > CopiesIn(n, notifications) => ~n.read

\* C20: a notification is created unread, and the only change ever made to an
\* existing notification is setting read to true on a notification whose
\* user is the caller of the mark-as-read request; a request of any other
\* user, of the same tenant or not, changes no notification.
ReadOnlyByRecipient ==
    [][IF \E p \in Procs, u \in Users : MarkArrives(p, u)
       THEN \A p \in Procs, u \in Users :
               MarkArrives(p, u) =>
                  \/ notifications' = notifications
                  \/ \E n \in BagToSet(notifications) :
                        n.user = u /\ notifications' = MarkedRead(n)
       ELSE OnlyAddsUnread]_vars

\* the bookings that make a transition in this step: created, canceled,
\* promoted from the waitlist, or deleted while confirmed
Promoted(b) ==
    b <= Len(bookings) /\ bookings[b].status = "waitlisted" /\ bookings'[b].status = "confirmed"

Transitioned ==
    {b \in 1..Len(bookings') :
        \/ b > Len(bookings)
        \/ /\ bookings'[b].status # bookings[b].status
           /\ \/ bookings'[b].status = "canceled"
              \/ Promoted(b)
              \/ bookings[b].status = "confirmed" /\ bookings'[b].status = "deleted"}

\* C21: every transition of a booking (created confirmed or waitlisted,
\* canceled, promoted, deleted while confirmed) adds exactly one notification
\* and exactly one audit entry, the entry naming that booking; a promotion
\* adds one notification of type waitlist_promoted for the promoted booking.
OneNotificationOneEntry ==
    [][\A b \in Transitioned :
          /\ BagCardinality(notifications') = BagCardinality(notifications) + 1
          /\ Len(bookingLogs') = Len(bookingLogs) + 1
          /\ SubSeq(bookingLogs', 1, Len(bookingLogs)) = bookingLogs
          /\ bookingLogs'[Len(bookingLogs')].booking = b
          /\ Promoted(b) =>
                \E n \in BagToSet(notifications') :
                    /\ n.type = "waitlist_promoted" /\ n.booking = b
                    /\ CopiesIn(n, notifications') = CopiesIn(n, notifications) + 1]_vars

\* the options of the action field of the audit log
AllowedActions ==
    {"create_request", "auto_waitlist", "auto_confirm", "promote_from_waitlist",
     "cancel_confirmed"}

\* bookingAfterOperation: the action recorded for a booking that goes away
CancelAction(priorStatus) ==
    IF priorStatus = "confirmed" THEN "cancel_confirmed" ELSE "cancel_unconfirmed"

\* booking b is canceled, or deleted, in this step
Canceled(b) ==
    /\ bookings[b].status \in {"confirmed", "waitlisted"}
    /\ bookings'[b].status \in {"canceled", "deleted"}

\* C22: a cancellation, or a deletion, of a booking adds one notification of
\* type booking_canceled and one audit entry for the booking, whose action is
\* cancel_confirmed when the booking was confirmed and cancel_unconfirmed
\* otherwise, and is one of the actions the audit log allows.
CancelAuditMatchesPriorStatus ==
    [][\A b \in BookingIds :
          Canceled(b) =>
             /\ \E n \in BagToSet(notifications') :
                   /\ n.type = "booking_canceled" /\ n.user = bookings[b].user
                   /\ CopiesIn(n, notifications') = CopiesIn(n, notifications) + 1
             /\ Len(bookingLogs') = Len(bookingLogs) + 1
             /\ LET entry == bookingLogs'[Len(bookingLogs')] IN
                   /\ entry.booking = b
                   /\ entry.action = CancelAction(bookings[b].status)
                   /\ entry.action \in AllowedActions]_vars

\* C23: createNotificationSafe ends after a bounded number of creates: at
\* most Retries + 1 inside retry and one more in the fallback; every create
\* before the last one failed with the foreign-key error, so a failure with
\* any other error is never followed by another create; once it has ended
\* it makes no further create.
BoundedCreateAttempts ==
    \A p \in Procs :
        LET em == emitter[p] IN
        /\ Len(em.codes) <= Retries + 2
        /\ \A i \in 1..Len(em.codes) - 1 : em.codes[i] = "23503"
        /\ em.outcome \in {"running", "fallback"} =>
              \A i \in 1..Len(em.codes) : em.codes[i] = "23503"
        /\ em.outcome = "running" => Len(em.codes) <= Retries
        /\ em.outcome = "fallback" => Len(em.codes) = Retries + 1
        /\ em.outcome = "created" => em.codes[Len(em.codes)] = "ok" /\ Len(em.codes) <= Retries + 1
        /\ em.outcome = "degraded" => em.codes[Len(em.codes)] = "ok" /\ Len(em.codes) = Retries + 2
        /\ em.outcome = "thrown" => em.codes[Len(em.codes)] # "ok"

\* the fallback itself failed after every retry failed: Retries + 2 creates;
\* and another run was ended by its first create failing otherwise
BoundedCreateAttemptsWitness ==
    \E p, q \in Procs :
        /\ emitter[p].outcome = "thrown" /\ Len(emitter[p].codes) = Retries + 2
        /\ emitter[q].outcome = "thrown" /\ emitter[q].codes = <<"other">>

\* the run of createNotificationSafe of handler p has seen the first create
\* and every retry fail with the foreign-key error
RetriesExhausted(p) ==
    /\ emitter[p].outcome = "fallback"
    /\ emitter[p].data.booking # NoBooking

\* C24: when the first create and every retry failed with the foreign-key
\* error and the notification names a booking, the next write of the emitter
\* is the same notification without the booking reference; when it succeeds
\* exactly that notification is stored; either way the booking stays as it
\* was created and the create is answered with success.
DegradesWithoutBooking ==
    [][\A p \in Procs :
          (RetriesExhausted(p) /\ emitter'[p] # emitter[p]) =>
             /\ bookings' = bookings
             /\ Exists(emitter[p].data.booking)
             /\ bookings[emitter[p].data.booking].status \in {"confirmed", "waitlisted"}
             /\ procs'[p].pc = "idle" /\ response' = [op |-> "create", code |-> 201]
             /\ \/ /\ emitter'[p].outcome = "degraded"
                   /\ notifications' = Notify(notifications,
                         [user |-> emitter[p].data.user, booking |-> NoBooking,
                          type |-> emitter[p].data.type, tenant |-> emitter[p].data.tenant,
                          read |-> emitter[p].data.read])
                \/ /\ emitter'[p].outcome = "thrown"
                   /\ notifications' = notifications]_vars

\* a notification without booking reference was written for a stored booking
DegradesWithoutBookingWitness ==
    \E p \in Procs :
        /\ emitter[p].outcome = "degraded"
        /\ Len(emitter[p].codes) = Retries + 2
        /\ BagIn(WithoutBooking(emitter[p].data), notifications)
        /\ response = [op |-> "create", code |-> 201]

\* a read of the admission failed in this step
ReadFailed == faults' = faults - 1

\* C25: when the read of the event or of the confirmed count fails during
\* admission, the request ends with an error and leaves the bookings as they
\* were: the handler does not go on to decide or create a booking, so no
\* booking is confirmed on a count that was not read.
ReadFailureSurfaces ==
    [][ReadFailed =>
          /\ bookings' = bookings
          /\ response'.op \in {"create", "book"} /\ response'.code = 500
          /\ \E p \in Procs :
                /\ procs'[p].pc = "idle"
                /\ \A q \in Procs : q # p => procs'[q] = procs[q]
                /\ \/ procs[p].pc = "be_count"
                   \/ procs[p].pc = "idle" /\ history' # history]_vars

\* a read failed while event 1 was full, and the event is still not oversold
ReadFailureSurfacesWitness ==
    /\ faults < MaxFaults
    /\ response.code = 500
    /\ ConfirmedCount(1) = capacity[1]
    /\ \E b \in BookingIds : bookings[b].status = "waitlisted"

\* booking b is the row a promotion in flight selected and now writes
PromotedBy(p, b) ==
    /\ procs[p].pc \in {"hk_update", "cb_promote"}
    /\ procs[p].sel = b
    /\ procs'[p] # procs[p]

\* C26: the status of an existing booking changes only to canceled (or the
\* row is deleted), or to confirmed by the write of a promotion that selected
\* the booking from the waitlist; a new booking is confirmed or waitlisted
\* and carries the user and tenant of the authenticated requester.
StatusOnlyByEngine ==
    [][/\ \A b \in BookingIds :
             bookings'[b].status # bookings[b].status =>
                \/ bookings'[b].status \in {"canceled", "deleted"}
                \/ /\ bookings'[b].status = "confirmed"
                   /\ \E p \in Procs : PromotedBy(p, b)
       /\ \A b \in 1..Len(bookings') :
             b > Len(bookings) =>
                /\ bookings'[b].status \in {"confirmed", "waitlisted"}
                /\ bookings'[b].tenant = UserTenant(bookings'[b].user)
                /\ \E p \in Procs : procs[p].user = bookings'[b].user /\ procs'[p].pc = "idle"]_vars

\* handler p runs a write of the admission, the cancellation or the promotion
EngineWrites(p) ==
    /\ procs[p].pc \in {"hk_update", "be_create", "cb_update", "cb_promote"}
    /\ procs'[p] # procs[p]

\* C27: the audit log only grows at its end: no step changes or removes an
\* entry that exists, and an entry is added only by a write of the
\* admission, cancellation or promotion code, never by a request that names
\* the audit log itself.
AuditAppendOnly ==
    [][/\ Len(bookingLogs') >= Len(bookingLogs)
       /\ SubSeq(bookingLogs', 1, Len(bookingLogs)) = bookingLogs
       /\ Len(bookingLogs') > Len(bookingLogs) => \E p \in Procs : EngineWrites(p)]_vars

\* C28: canceled is terminal: a booking whose status is canceled is never
\* confirmed or waitlisted in a later state, also when it was canceled
\* after a promotion had selected it as the oldest waitlisted booking.
CanceledIsTerminal ==
    [][\A b \in BookingIds :
          bookings[b].status = "canceled" =>
             bookings'[b].status \notin {"confirmed", "waitlisted"}]_vars

WaitlistedCount(e) ==
    Cardinality({b \in BookingIds : bookings[b].event = e /\ bookings[b].status = "waitlisted"})

\* C29: no promotion is lost: in every state with no request in flight, an
\* event that has a waitlisted booking has as many confirmed bookings as its
\* capacity.
NoLostPromotion ==
    Quiescent => \A e \in Events : WaitlistedCount(e) > 0 => ConfirmedCount(e) = capacity[e]

\* what a find and a findById of user u answer from the store as it is
FreshAnswer(u, b) ==
    IF b = NoBooking THEN Docs(NewestFirst(TenantRows(UserTenant(u))))
    ELSE IF Exists(b) /\ bookings[b].tenant = UserTenant(u) THEN <<Doc(b)>>
    ELSE <<>>

\* C30: when every change of the bookings of a tenant goes through the
\* query builder, a find or findById answered from the tenant cache returns
\* what the store holds: no value cached before a create, update or delete
\* is returned after it.
NoStaleRead ==
    [][\A u \in Users, b \in BookingIds \cup {NoBooking} :
          (/\ \E op \in {"findByUser", "findById"} :
                 history' = history (+) SetToBag({Request(op, u, b)})
           /\ listing'.cached)
              => listing'.docs = FreshAnswer(u, b)]_vars

====
